---- MODULE Spec2Model ----
(***************************************************************************)
(* openiboot usb.c: the USB device controller's lifecycle (usb_setup,      *)
(* usb_shutdown), its descriptor and string tables, and the registry of    *)
(* per-endpoint handlers.                                                  *)
(*                                                                         *)
(* Pointers are modelled by what they point to: a NULL array is the empty  *)
(* sequence, an allocated array a non-empty one.  A pointer field that the *)
(* code never initialises carries a flag (wild).  A free, realloc or store *)
(* through a pointer that is not a live allocation sets memFault, after    *)
(* which the program's behaviour is not defined and the model stops.       *)
(***************************************************************************)
EXTENDS Integers, Sequences, FiniteSets, TLC

(***************************************************************************)
(* Bounds of the model.                                                    *)
(***************************************************************************)
\* number of physical endpoints (hardware/usb.h; 6 on the device)
USB_NUM_ENDPOINTS == 2
\* speed identifiers handed to usb_get_configuration_descriptor: 0..MaxSpeedId
MaxSpeedId == 4
\* descriptor builder: configurations, interfaces of one configuration,
\* endpoints of one interface
MaxConfigurations == 2
MaxInterfaces == 1
MaxEndpoints == 2

(***************************************************************************)
(* Program constants.                                                      *)
(***************************************************************************)
\* uint8_t: numStringDescriptors, bNumConfigurations, the uint8_t returns
UInt8 == 256
\* uint16_t: wTotalLength, wMaxPacketSize, the return of packetsizeFromSpeed
UInt16 == 65536

\* enum USBDirection (usb.h)
USBOut == 0
USBIn == 1
USBBiDir == 2

\* speed identifiers (hardware/usb.h)
USB_HIGHSPEED == 0
USB_FULLSPEED == 1
USB_LOWSPEED == 2
USB_FULLSPEED_48_MHZ == 3

\* enum USBTransferType, USBSynchronisationType, USBUsageType (usb.h)
USBBulk == 2
USBNoSynchronization == 0
USBDataEndpoint == 0

\* sizeof of the packed descriptor structures (usb.h)
SizeofUSBDeviceDescriptor == 18
SizeofUSBConfigurationDescriptor == 9
SizeofUSBInterfaceDescriptor == 9
SizeofUSBEndpointDescriptor == 7
SizeofUSBStringDescriptor == 2

\* what a read of memory that was never written can give
GarbageBytes == {0, 255}

Endpoints == 0 .. (USB_NUM_ENDPOINTS - 1)
Directions == {USBOut, USBIn, USBBiDir}
\* the direction words handed to the functions that take a USBDirection: the
\* enumeration and one word outside it
DirectionWords == Directions \cup {USBBiDir + 1}
\* the (handler, token) pairs callers register: handlers are function
\* addresses (0 is NULL), tokens are words
HandlerArgs == {<<1, 3>>, <<2, 4>>}
SpeedIds == 0 .. MaxSpeedId

\* strlen of the strings the program interns
strlen(s) == Len(s)

(***************************************************************************)
(* String table.                                                           *)
(***************************************************************************)
\* the table as three variables of the file, passed as one record
StringTable(num, strs, first) == [num |-> num, strs |-> strs, first |-> first]

\* firstStringDescriptor before its first realloc
NullFirst == [alloc |-> FALSE, bLength |-> 0, bDescriptorType |-> "none", wLANGID |-> << >>]

\* the slots 1..n of the language list after realloc to n entries
Resize(seq, n, fill) == [i \in 1 .. n |-> IF i <= Len(seq) THEN seq[i] ELSE fill]

\* addStringDescriptor: g is what the never-written header of a fresh
\* firstStringDescriptor reads as.  Result: the table, the returned index,
\* and whether the call stored through a pointer that is no allocation.
addStringDescriptor(t, descriptorString, g) ==
    LET newIndex == t.num
        num2 == (t.num + 1) % UInt8
        sLen == strlen(descriptorString)
        entry == [bLength |-> (SizeofUSBStringDescriptor + sLen) % UInt8,
                  bDescriptorType |-> "USBStringDescriptorType",
                  bString |-> descriptorString]
        \* realloc(stringDescriptors, 0) frees the array: index newIndex is
        \* then outside every allocation
        wrapped == num2 = 0
        strs2 == IF wrapped THEN << >> ELSE Append(t.strs, entry)
        first2 == IF wrapped
                    THEN [t.first EXCEPT !.alloc = TRUE]
                    ELSE [alloc |-> TRUE,
                          bLength |-> IF t.first.alloc THEN t.first.bLength ELSE g,
                          bDescriptorType |-> IF t.first.alloc THEN t.first.bDescriptorType
                                                               ELSE "indeterminate",
                          wLANGID |-> [Resize(t.first.wLANGID, num2, "none")
                                         EXCEPT ![newIndex + 1] = "USB_LANGID_ENGLISH_US"]]
    IN  [table |-> StringTable(num2, strs2, first2),
         ret |-> (newIndex + 1) % UInt8,
         fault |-> wrapped]

\* the count not reset
releaseStringDescriptors_KeepsCount(t) ==
    IF t.strs = << >> THEN t
    ELSE StringTable(t.num, << >>, t.first)

\* releaseStringDescriptors: frees the entries and the array; the language
\* list is left as it is
releaseStringDescriptors(t) ==
    IF t.strs = << >> THEN t
    ELSE StringTable(0, << >>, t.first)

\* the loop counter of releaseStringDescriptors is an int8_t: with more than
\* 127 entries it wraps below zero and the loop frees outside the array
releaseStringsFault(t) == t.strs # << >> /\ t.num > 127

(***************************************************************************)
(* Descriptor registry.                                                    *)
(***************************************************************************)
\* the static deviceDescriptor before any call (zero-initialised)
ZeroDevice ==
    [bLength |-> 0, bDescriptorType |-> "none",
     bDeviceClass |-> 0, bDeviceSubClass |-> 0, bDeviceProtocol |-> 0,
     iManufacturer |-> 0, iProduct |-> 0, iSerialNumber |-> 0,
     bNumConfigurations |-> 0]

\* an array slot that realloc added and nobody wrote
GarbageConfiguration ==
    [descriptor |-> [bLength |-> 0, bDescriptorType |-> "indeterminate",
                     wTotalLength |-> 0, bNumInterfaces |-> 0,
                     bConfigurationValue |-> 0, iConfiguration |-> 0,
                     bmAttributes |-> 0, bMaxPower |-> 0],
     interfaces |-> << >>, wild |-> TRUE]

\* addConfiguration: the interfaces pointer of the new slot is never written;
\* w says whether it reads as something other than NULL
addConfiguration(dev, confs, bConfigurationValue, iConfiguration, selfPowered, remoteWakeup, maxPower, w) ==
    LET newIndex == dev.bNumConfigurations
        n2 == (dev.bNumConfigurations + 1) % UInt8
        conf == [descriptor |->
                   [bLength |-> SizeofUSBConfigurationDescriptor,
                    bDescriptorType |-> "USBConfigurationDescriptorType",
                    wTotalLength |-> 0,
                    bNumInterfaces |-> 0,
                    bConfigurationValue |-> bConfigurationValue,
                    iConfiguration |-> iConfiguration,
                    bmAttributes |-> 128 + ((selfPowered % 2) * 64)
                                         + ((remoteWakeup % 2) * 32),
                    bMaxPower |-> (maxPower \div 2) % UInt8],
                 interfaces |-> << >>,
                 wild |-> w]
    IN  [dev |-> [dev EXCEPT !.bNumConfigurations = n2],
         confs |-> [Resize(confs, n2, GarbageConfiguration) EXCEPT ![newIndex + 1] = conf],
         ret |-> newIndex]

\* addInterfaceDescriptor: the configuration with the interface appended, and
\* whether realloc was handed a pointer that is no allocation
addInterfaceDescriptor(conf, bInterfaceNumber, bAlternateSetting, bInterfaceClass, bInterfaceSubClass, bInterfaceProtocol, iInterface) ==
    LET iface == [descriptor |->
                    [bLength |-> SizeofUSBInterfaceDescriptor,
                     bDescriptorType |-> "USBInterfaceDescriptorType",
                     bInterfaceNumber |-> bInterfaceNumber,
                     bAlternateSetting |-> bAlternateSetting,
                     bNumEndpoints |-> 0,
                     bInterfaceClass |-> bInterfaceClass,
                     bInterfaceSubClass |-> bInterfaceSubClass,
                     bInterfaceProtocol |-> bInterfaceProtocol,
                     iInterface |-> iInterface],
                  endpointDescriptors |-> << >>]
    IN  [conf |-> [descriptor |-> [conf.descriptor EXCEPT
                                     !.bNumInterfaces = (@ + 1) % UInt8],
                   interfaces |-> Append(conf.interfaces, iface),
                   wild |-> FALSE],
         fault |-> conf.wild]

\* the direction test of addEndpointDescriptor (line 306)
EndpointDirectionRejected(direction) == direction > 2

\* addEndpointDescriptor: the interface afterwards and the uint8_t returned
addEndpointDescriptor(iface, endpoint, direction, transferType, syncType, usageType, wMaxPacketSize, bInterval) ==
    IF EndpointDirectionRejected(direction)
    THEN [iface |-> iface, ret |-> (-1) % UInt8]
    ELSE LET newIndex == iface.descriptor.bNumEndpoints
             ep == [bLength |-> SizeofUSBEndpointDescriptor,
                    bDescriptorType |-> "USBEndpointDescriptorType",
                    bEndpointAddress |-> (endpoint % 4) + ((direction % 2) * 128),
                    bmAttributes |-> (transferType % 4) + ((syncType % 4) * 4)
                                         + ((usageType % 4) * 16),
                    wMaxPacketSize |-> wMaxPacketSize,
                    bInterval |-> bInterval]
         IN  [iface |-> [descriptor |-> [iface.descriptor EXCEPT
                                           !.bNumEndpoints = (@ + 1) % UInt8],
                         endpointDescriptors |-> Append(iface.endpointDescriptors, ep)],
              ret |-> newIndex]

\* the loop bound of endConfiguration (line 281): read through the global
\* configurations, that is from configuration 0
EndLoopBound(confs, idx) == confs[1].descriptor.bNumInterfaces

\* the sum endConfiguration adds for interfaces 0..n-1 of conf; an index
\* beyond conf's own array reads g
RECURSIVE InterfaceLengths(_, _, _)
InterfaceLengths(conf, n, g) ==
    IF n = 0 THEN 0
    ELSE InterfaceLengths(conf, n - 1, g)
         + SizeofUSBInterfaceDescriptor
         + (IF n <= Len(conf.interfaces)
              THEN conf.interfaces[n].descriptor.bNumEndpoints
              ELSE g) * SizeofUSBEndpointDescriptor

\* endConfiguration(&configurations[idx - 1])
endConfiguration(confs, idx, g) ==
    [confs EXCEPT ![idx].descriptor.wTotalLength =
        (SizeofUSBConfigurationDescriptor
           + InterfaceLengths(confs[idx], EndLoopBound(confs, idx), g)) % UInt16]

\* the 48 MHz case label placed with the low-speed one
packetsizeFromSpeed_Misplaced(speed_id) ==
    CASE speed_id = USB_HIGHSPEED -> 512
      [] speed_id = USB_FULLSPEED -> 64
      [] speed_id = USB_FULLSPEED_48_MHZ -> 32
      [] speed_id = USB_LOWSPEED -> 32
      [] OTHER -> (-1) % UInt16

\* packetsizeFromSpeed, returned as uint16_t
packetsizeFromSpeed(speed_id) ==
    CASE speed_id = USB_HIGHSPEED -> 512
      [] speed_id = USB_FULLSPEED -> 64
      [] speed_id = USB_FULLSPEED_48_MHZ -> 64
      [] speed_id = USB_LOWSPEED -> 32
      [] OTHER -> (-1) % UInt16

\* releaseConfigurations: free(configurations[i].interfaces) is handed the
\* never-written pointer when no interface was added
releaseConfigurationsFault(dev, confs) ==
    \E i \in 1 .. Len(confs) : i <= dev.bNumConfigurations /\ confs[i].wild

releaseConfigurations(dev, confs) ==
    IF confs = << >> THEN [dev |-> dev, confs |-> confs]
    ELSE [dev |-> [dev EXCEPT !.bNumConfigurations = 0], confs |-> << >>]

(***************************************************************************)
(* Endpoint handler registry.                                              *)
(***************************************************************************)
NoHandler == [handler |-> 0, token |-> 0]

\* memset(endpoint_handlers, 0, sizeof(endpoint_handlers))
ZeroHandlers == [e \in Endpoints |-> [in |-> NoHandler, out |-> NoHandler]]

\* the loop of usb_setup over USB_EP_DIRECTION(i) (lines 68-80)
DirectionsFromHardware(hw, old) ==
    [i \in Endpoints |->
        CASE hw[i] = "USB_ENDPOINT_DIRECTIONS_BIDIR" -> USBBiDir
          [] hw[i] = "USB_ENDPOINT_DIRECTIONS_IN" -> USBIn
          [] hw[i] = "USB_ENDPOINT_DIRECTIONS_OUT" -> USBOut
          [] OTHER -> old[i]]

\* line 381: the range test of usb_install_ep_handler
InstallRangeRejected(endpoint) == endpoint >= USB_NUM_ENDPOINTS

\* the comparison inverted
InstallDirectionRejected_Inverted(epdir, direction) ==
    epdir = direction /\ epdir # USBBiDir

\* line 385: the direction test, on the entry read from endpoint_directions
InstallDirectionRejected(epdir, direction) ==
    epdir # direction /\ epdir # USBBiDir

\* the two branches storing into each other's slot
InstallWrite_Swapped(handlers, endpoint, direction, handler, token) ==
    IF direction = USBIn
    THEN [handlers EXCEPT ![endpoint].out = [handler |-> handler, token |-> token]]
    ELSE [handlers EXCEPT ![endpoint].in = [handler |-> handler, token |-> token]]

\* lines 389-394: the store into the slot of (endpoint, direction)
InstallWrite(handlers, endpoint, direction, handler, token) ==
    IF direction = USBIn
    THEN [handlers EXCEPT ![endpoint].in = [handler |-> handler, token |-> token]]
    ELSE [handlers EXCEPT ![endpoint].out = [handler |-> handler, token |-> token]]

\* the slot of (endpoint, direction), direction IN or OUT
Slot(handlers, endpoint, direction) ==
    IF direction = USBIn THEN handlers[endpoint].in ELSE handlers[endpoint].out

(***************************************************************************)
(* State.                                                                  *)
(***************************************************************************)
VARIABLES
    pc,                     \* where usb_setup stands; "idle" between calls
    usb_inited, usb_state, endpoint_directions, endpoint_handlers,
    deviceDescriptor, numStringDescriptors, stringDescriptors,
    firstStringDescriptor, configurations,
    inBuffer, outBuffer,    \* whether the transfer buffer is allocated
    power,                  \* the POWER_USB rail
    clockgate,              \* the OTG, PHY and EDRAM clock gates
    regs,                   \* the controller's and the PHY's registers
    irq,                    \* the USB interrupt line: handler installed, enabled
    hwEpDir,                \* the direction the hardware gives each endpoint
    lastOp, ret, retLine,   \* the last call, what it returned, and from which line
    retString,              \* what usb_get_string_descriptor returned
    memFault,               \* memory outside every allocation was freed or written
    installed,              \* history: the last successful install per slot
    released                \* history: usb_shutdown has freed a built registry

ctlVars == <<pc, usb_inited, usb_state>>
epVars == <<endpoint_directions, endpoint_handlers, installed>>
descVars == <<deviceDescriptor, numStringDescriptors, stringDescriptors, firstStringDescriptor, configurations, released>>
hwVars == <<inBuffer, outBuffer, power, clockgate, regs, irq, hwEpDir>>
callVars == <<lastOp, ret, retLine, retString, memFault>>
vars == <<ctlVars, epVars, descVars, hwVars, callVars>>

HardwareDirections ==
    {"USB_ENDPOINT_DIRECTIONS_BIDIR", "USB_ENDPOINT_DIRECTIONS_IN", "USB_ENDPOINT_DIRECTIONS_OUT"}

InFlags ==
    {"INEPNakEff", "INTknEPMis", "INTknTXFEmp", "TimeOUT", "AHBErr", "EPDisbld", "XferCompl"}
OutFlags == {"OUTTknEPDis", "SetUp", "AHBErr", "EPDisbld", "XferCompl"}

\* the registers before the program touches them
ResetRegs ==
    [DCTL |-> {}, USB_ONOFF |-> {"OFF"}, OPHYPWR |-> {}, OPHYCLK |-> {}, ORSTCON |-> {},
     GRSTCTL |-> {"AHBIDLE"}, GINTMSK |-> {}, DIEPMSK |-> {}, DOEPMSK |-> {}, DAINTMSK |-> {},
     GAHBCFG |-> {}, USB_UNKNOWNREG1 |-> {}, DCFG |-> {}, GRXFSIZ |-> {}, GNPTXFSIZ |-> {},
     GOTGCTL |-> {}, DIEPCTL0 |-> {}, DOEPCTL0 |-> {},
     DIEPINT |-> [i \in 0 .. USB_NUM_ENDPOINTS |-> {}],
     DOEPINT |-> [i \in 0 .. USB_NUM_ENDPOINTS |-> {}]]

\* the interrupt mask registers are the previous boot stage's when the
\* program starts: cleared, or still unmasked for its own USB session
BootRegs ==
    {ResetRegs,
     [ResetRegs EXCEPT !.GINTMSK = {"OTG", "SUSPEND", "RESET", "INEP", "OEP", "DISCONNECT"},
                       !.DIEPMSK = {"XFERCOMPL", "AHBERR", "TIMEOUT"},
                       !.DOEPMSK = {"XFERCOMPL", "SETUP", "BACK2BACKSETUP"}]}

NoString == [bLength |-> 0, bDescriptorType |-> "none", bString |-> ""]

\* static storage is zero-initialised
InitMemory ==
    /\ pc = "idle"
    /\ usb_inited = FALSE
    /\ usb_state = "USBStart"
    /\ endpoint_directions = [e \in Endpoints |-> 0]
    /\ endpoint_handlers = ZeroHandlers
    /\ installed = [e \in Endpoints |-> [d \in {USBIn, USBOut} |-> NoHandler]]
    /\ deviceDescriptor = ZeroDevice
    /\ numStringDescriptors = 0
    /\ stringDescriptors = << >>
    /\ firstStringDescriptor = NullFirst
    /\ configurations = << >>
    /\ inBuffer = FALSE
    /\ outBuffer = FALSE
    /\ power = FALSE
    /\ clockgate = [g \in {"USB_OTGCLOCKGATE", "USB_PHYCLOCKGATE", "EDRAM_CLOCKGATE"} |-> FALSE]
    /\ irq = [installed |-> FALSE, enabled |-> FALSE]
    /\ lastOp = "none"
    /\ ret = 0
    /\ retLine = 0
    /\ retString = NoString
    /\ memFault = FALSE
    /\ released = FALSE

\* the device: endpoint 0 is the bidirectional control endpoint, the others
\* alternate IN and OUT
DeviceDirections ==
    [e \in Endpoints |->
        IF e = 0 THEN "USB_ENDPOINT_DIRECTIONS_BIDIR"
        ELSE IF e % 2 = 1 THEN "USB_ENDPOINT_DIRECTIONS_IN"
        ELSE "USB_ENDPOINT_DIRECTIONS_OUT"]

Init == InitMemory /\ hwEpDir = DeviceDirections /\ regs \in BootRegs

\* the start of the specifications that apply the table functions alone:
\* they touch no register
InitTables == InitMemory /\ hwEpDir = DeviceDirections /\ regs = ResetRegs

\* any hardware: every assignment of a direction to each endpoint
InitAnyHardware == InitMemory /\ hwEpDir \in [Endpoints -> HardwareDirections] /\ regs = ResetRegs

\* a call can start: no call is in progress and the program is still defined
CanCall == pc = "idle" /\ ~memFault

(***************************************************************************)
(* usb_setup.  The function spins on the hardware twice, so it is a        *)
(* sequence of steps; no other call runs between them.                     *)
(***************************************************************************)
\* the guard left out
AlreadyInited_Never == FALSE

\* the guard taken to mean that the controller is up
AlreadyInited_WhilePowered == usb_inited /\ power

\* line 54: the guard against a second bring-up
AlreadyInited == usb_inited

\* lines 51-110: the guard, then power, tables, clocks, PHY and the core
\* soft reset
usb_setup ==
    /\ CanCall
    /\ lastOp' = "usb_setup"
    /\ IF AlreadyInited
       THEN /\ ret' = 0
            /\ retLine' = 55
            /\ UNCHANGED <<ctlVars, epVars, descVars, hwVars, retString, memFault>>
       ELSE /\ pc' = "L113"
            /\ usb_state' = "USBStart"
            /\ power' = TRUE
            /\ endpoint_directions' = DirectionsFromHardware(hwEpDir, endpoint_directions)
            /\ endpoint_handlers' = ZeroHandlers
            /\ installed' = [e \in Endpoints |-> [d \in {USBIn, USBOut} |-> NoHandler]]
            /\ clockgate' = [g \in DOMAIN clockgate |-> TRUE]
            /\ regs' = [regs EXCEPT
                          !.DCTL = @ \cup {"SFTDISCONNECT"},
                          !.USB_ONOFF = @ \ {"OFF"},
                          !.OPHYPWR = {"POWERON"},
                          !.OPHYCLK = {"CLKSEL_48MHZ"},
                          !.ORSTCON = @ \ {"PHYSWRESET"},
                          !.GRSTCTL = {"CORESOFTRESET"}]
            /\ UNCHANGED <<usb_inited, descVars, inBuffer, outBuffer, irq, hwEpDir,
                           ret, retLine, retString, memFault>>

\* the hardware finishes the core soft reset and clears the bit
hw_reset_taken ==
    /\ "CORESOFTRESET" \in regs.GRSTCTL
    /\ regs' = [regs EXCEPT !.GRSTCTL = @ \ {"CORESOFTRESET"}]
    /\ UNCHANGED <<ctlVars, epVars, descVars, inBuffer, outBuffer, power, clockgate, irq,
                   hwEpDir, callVars>>

\* the hardware raises the top bit of GRSTCTL (the AHB master is idle)
hw_core_ready ==
    /\ "CORESOFTRESET" \notin regs.GRSTCTL
    /\ "AHBIDLE" \notin regs.GRSTCTL
    /\ regs' = [regs EXCEPT !.GRSTCTL = @ \cup {"AHBIDLE"}]
    /\ UNCHANGED <<ctlVars, epVars, descVars, inBuffer, outBuffer, power, clockgate, irq,
                   hwEpDir, callVars>>

\* the comparison inverted: the loop ends while the bit still reads set
ResetLoopExits_Inverted(grstctl) == "CORESOFTRESET" \in grstctl

\* line 113: the loop ends once the reset bit reads clear
ResetLoopExits(grstctl) == "CORESOFTRESET" \notin grstctl

\* line 116: the loop ends once the register reads negative, that is with
\* its top bit set
ReadyLoopExits(grstctl) == "AHBIDLE" \in grstctl

usb_setup_L113 ==
    /\ pc = "L113"
    /\ ResetLoopExits(regs.GRSTCTL)
    /\ pc' = "L116"
    /\ UNCHANGED <<usb_inited, usb_state, epVars, descVars, hwVars, callVars>>

\* the per-endpoint interrupt registers, slot USB_NUM_ENDPOINTS included
\* (lines 127-137)
FlagAllEndpoints(r) ==
    [r EXCEPT !.DIEPINT = [i \in 0 .. USB_NUM_ENDPOINTS |-> InFlags],
              !.DOEPINT = [i \in 0 .. USB_NUM_ENDPOINTS |-> OutFlags]]

\* lines 116-137: the second wait, reconnect, flag the endpoint interrupts
usb_setup_L116 ==
    /\ pc = "L116"
    /\ ReadyLoopExits(regs.GRSTCTL)
    /\ pc' = "L140"
    /\ regs' = FlagAllEndpoints([regs EXCEPT !.DCTL = @ \ {"SFTDISCONNECT"}])
    /\ UNCHANGED <<usb_inited, usb_state, epVars, descVars, inBuffer, outBuffer, power,
                   clockgate, irq, hwEpDir, callVars>>

\* the three mask writes left out
MaskAll_Skipped(r) == r

\* lines 140-142: GINTMSK_NONE, DIEPMSK_NONE, DOEPMSK_NONE
MaskAll(r) == [r EXCEPT !.GINTMSK = {}, !.DIEPMSK = {}, !.DOEPMSK = {}]

\* lines 140-142: mask every top-level interrupt
usb_setup_L140 ==
    /\ pc = "L140"
    /\ pc' = "L144"
    /\ regs' = MaskAll(regs)
    /\ UNCHANGED <<usb_inited, usb_state, epVars, descVars, inBuffer, outBuffer, power,
                   clockgate, irq, hwEpDir, callVars>>

\* lines 144-145: interrupt_install, interrupt_enable
usb_setup_L144 ==
    /\ pc = "L144"
    /\ pc' = "L150"
    /\ irq' = [installed |-> TRUE, enabled |-> TRUE]
    /\ UNCHANGED <<usb_inited, usb_state, epVars, descVars, inBuffer, outBuffer, power,
                   clockgate, regs, hwEpDir, callVars>>

\* lines 150-156: initializeDescriptors (lines 235-239) and the two buffers
usb_setup_L150 ==
    /\ pc = "L150"
    /\ pc' = "L158"
    /\ numStringDescriptors' = 0
    /\ stringDescriptors' = << >>
    /\ configurations' = << >>
    /\ inBuffer' = TRUE
    /\ outBuffer' = TRUE
    /\ UNCHANGED <<usb_inited, usb_state, epVars, deviceDescriptor, firstStringDescriptor,
                   released, power, clockgate, regs, irq, hwEpDir, callVars>>

\* lines 158-173: DMA, device configuration, control endpoints, FIFOs
usb_setup_L158 ==
    /\ pc = "L158"
    /\ pc' = "L175"
    /\ regs' = FlagAllEndpoints(
                 [regs EXCEPT !.GAHBCFG = {"DMAEN", "BSTLEN_INCR8", "MASKINT"},
                              !.USB_UNKNOWNREG1 = {"START"},
                              !.DCFG = {"NZSTSOUTHSHK"},
                              !.DIEPCTL0 = {"ACTIVE"},
                              !.DOEPCTL0 = {"ACTIVE"},
                              !.GRXFSIZ = {"RX_FIFO_DEPTH"},
                              !.GNPTXFSIZ = {"TX_FIFO_DEPTH", "TX_FIFO_STARTADDR"}])
    /\ UNCHANGED <<usb_inited, usb_state, epVars, descVars, inBuffer, outBuffer, power,
                   clockgate, irq, hwEpDir, callVars>>

\* lines 175-182: unmask the interrupts enumeration needs
usb_setup_L175 ==
    /\ pc = "L175"
    /\ pc' = "L184"
    /\ regs' = [regs EXCEPT
                  !.GINTMSK = {"OTG", "SUSPEND", "RESET", "INEP", "OEP", "DISCONNECT"},
                  !.DAINTMSK = {"ALL"},
                  !.DOEPMSK = {"XFERCOMPL", "SETUP", "BACK2BACKSETUP"},
                  !.DIEPMSK = {"XFERCOMPL", "AHBERR", "TIMEOUT"},
                  !.DIEPINT = [@ EXCEPT ![0] = {"ALL"}],
                  !.DOEPINT = [@ EXCEPT ![0] = {"ALL"}]]
    /\ UNCHANGED <<usb_inited, usb_state, epVars, descVars, inBuffer, outBuffer, power,
                   clockgate, irq, hwEpDir, callVars>>

\* lines 184-186: programming done, session request
usb_setup_L184 ==
    /\ pc = "L184"
    /\ pc' = "L188"
    /\ regs' = [regs EXCEPT !.DCTL = {"PROGRAMDONE", "CGOUTNAK", "CGNPINNAK"},
                            !.GOTGCTL = @ \cup {"SESSIONREQUEST"}]
    /\ UNCHANGED <<usb_inited, usb_state, epVars, descVars, inBuffer, outBuffer, power,
                   clockgate, irq, hwEpDir, callVars>>

\* lines 188-192: change_state(USBPowered) (lines 425-430), the guard, return 0
usb_setup_L188 ==
    /\ pc = "L188"
    /\ pc' = "idle"
    /\ usb_state' = "USBPowered"
    /\ usb_inited' = TRUE
    /\ ret' = 0
    /\ retLine' = 192
    /\ UNCHANGED <<epVars, descVars, hwVars, lastOp, retString, memFault>>

(***************************************************************************)
(* The descriptor queries.                                                 *)
(***************************************************************************)
TheTable == StringTable(numStringDescriptors, stringDescriptors, firstStringDescriptor)

\* the lazy-build test left out
DeviceNotBuilt_Always(confs) == TRUE

\* line 200: the device descriptor is built when no configuration array exists
DeviceNotBuilt(confs) == confs = << >>

\* lines 201-216: the build.  g: what fresh memory reads as; w: whether the
\* new configuration's interfaces pointer reads as non-NULL
BuildDevice(dev, t, g, w) ==
    LET s1 == addStringDescriptor(t, "Apple Inc.", g)
        s2 == addStringDescriptor(s1.table, "Apple Mobile Device (OpenIBoot Mode)", g)
        s3 == addStringDescriptor(s2.table, "", g)
        d3 == [dev EXCEPT !.bLength = SizeofUSBDeviceDescriptor,
                          !.bDescriptorType = "USBDeviceDescriptorType",
                          !.bDeviceClass = 0,
                          !.bDeviceSubClass = 0,
                          !.bDeviceProtocol = 0,
                          !.iManufacturer = s1.ret,
                          !.iProduct = s2.ret,
                          !.iSerialNumber = s3.ret,
                          !.bNumConfigurations = 0]
        s4 == addStringDescriptor(s3.table, "OpenIBoot Mode Configuration", g)
        c == addConfiguration(d3, << >>, 1, s4.ret, 0, 0, 500, w)
    IN  [dev |-> c.dev, confs |-> c.confs, table |-> s4.table,
         fault |-> s1.fault \/ s2.fault \/ s3.fault \/ s4.fault]

usb_get_device_descriptor ==
    /\ CanCall
    /\ lastOp' = "usb_get_device_descriptor"
    /\ ret' = 0
    /\ retLine' = 219
    /\ IF DeviceNotBuilt(configurations)
       THEN \E g \in GarbageBytes, w \in BOOLEAN :
              LET b == BuildDevice(deviceDescriptor, TheTable, g, w)
              IN  /\ deviceDescriptor' = b.dev
                  /\ configurations' = b.confs
                  /\ numStringDescriptors' = b.table.num
                  /\ stringDescriptors' = b.table.strs
                  /\ firstStringDescriptor' = b.table.first
                  /\ memFault' = b.fault
       ELSE UNCHANGED <<descVars, memFault>>
    /\ UNCHANGED <<ctlVars, epVars, hwVars, retString, released>>

\* line 223: interfaces are synthesized for index 0 when its pointer reads NULL
NeedsInterfaces(index, confs) ==
    index = 0 /\ confs[1].interfaces = << >> /\ ~confs[1].wild

\* lines 224-229
BuildInterfaces(confs, t, speed_id, g) ==
    LET s == addStringDescriptor(t, "IF0", g)
        a == addInterfaceDescriptor(confs[1], 0, 0, "OPENIBOOT_INTERFACE_CLASS", "OPENIBOOT_INTERFACE_SUBCLASS", "OPENIBOOT_INTERFACE_PROTOCOL", s.ret)
        k == Len(a.conf.interfaces)
        e1 == addEndpointDescriptor(a.conf.interfaces[k], 1, USBIn, USBBulk, USBNoSynchronization, USBDataEndpoint, packetsizeFromSpeed(speed_id), 0)
        e2 == addEndpointDescriptor(e1.iface, 1, USBOut, USBBulk, USBNoSynchronization, USBDataEndpoint, packetsizeFromSpeed(speed_id), 0)
        c2 == [a.conf EXCEPT !.interfaces[k] = e2.iface]
    IN  [confs |-> endConfiguration([confs EXCEPT ![1] = c2], 1, g),
         table |-> s.table,
         fault |-> s.fault \/ a.fault]

\* index must name a configuration that exists: anything else is outside the
\* function's contract and is not called
usb_get_configuration_descriptor(index, speed_id) ==
    /\ CanCall
    /\ index + 1 \in 1 .. Len(configurations)
    /\ lastOp' = "usb_get_configuration_descriptor"
    /\ ret' = 0
    /\ retLine' = 232
    /\ IF NeedsInterfaces(index, configurations)
       THEN \E g \in GarbageBytes :
              LET b == BuildInterfaces(configurations, TheTable, speed_id, g)
              IN  /\ configurations' = b.confs
                  /\ numStringDescriptors' = b.table.num
                  /\ stringDescriptors' = b.table.strs
                  /\ firstStringDescriptor' = b.table.first
                  /\ memFault' = b.fault
       ELSE UNCHANGED <<configurations, numStringDescriptors, stringDescriptors,
                        firstStringDescriptor, memFault>>
    /\ UNCHANGED <<ctlVars, epVars, deviceDescriptor, released, hwVars, retString>>

\* lines 341-347; index 0 needs the language list to exist, any other index
\* an interned entry
usb_get_string_descriptor(index) ==
    /\ CanCall
    /\ IF index = 0 THEN firstStringDescriptor.alloc ELSE index \in 1 .. Len(stringDescriptors)
    /\ lastOp' = "usb_get_string_descriptor"
    /\ ret' = index
    /\ retLine' = IF index = 0 THEN 343 ELSE 345
    /\ retString' = IF index = 0
                      THEN [bLength |-> firstStringDescriptor.bLength,
                            bDescriptorType |-> firstStringDescriptor.bDescriptorType,
                            bString |-> firstStringDescriptor.wLANGID]
                      ELSE stringDescriptors[index]
    /\ UNCHANGED <<ctlVars, epVars, descVars, hwVars, memFault>>

(***************************************************************************)
(* usb_install_ep_handler.                                                 *)
(***************************************************************************)
\* the outcome of a call whose read of endpoint_directions[endpoint] gave epdir
InstallOutcome(endpoint, direction, epdir) ==
    IF InstallRangeRejected(endpoint) THEN [ret |-> -1, line |-> 382]
    ELSE IF InstallDirectionRejected(epdir, direction) THEN [ret |-> -1, line |-> 386]
    ELSE IF direction = USBIn \/ direction = USBOut THEN [ret |-> 0, line |-> 399]
    ELSE [ret |-> -1, line |-> 396]

\* what the read at line 385 can give: the table's entry, or, for an index
\* the range test let through that is not in the table, any word
DirectionReads(endpoint) ==
    IF endpoint \in Endpoints THEN {endpoint_directions[endpoint]}
    ELSE DirectionWords

usb_install_ep_handler(endpoint, direction, handler, token) ==
    /\ CanCall
    /\ lastOp' = "usb_install_ep_handler"
    /\ \E epdir \in DirectionReads(endpoint) :
         LET o == InstallOutcome(endpoint, direction, epdir)
             stores == o.ret = 0
         IN  /\ ret' = o.ret
             /\ retLine' = o.line
             /\ IF stores /\ endpoint \in Endpoints
                THEN /\ endpoint_handlers' = InstallWrite(endpoint_handlers, endpoint, direction, handler, token)
                     /\ installed' = [installed EXCEPT ![endpoint][direction] =
                                        [handler |-> handler, token |-> token]]
                ELSE UNCHANGED <<endpoint_handlers, installed>>
             \* a store through an index outside the table
             /\ memFault' = (stores /\ endpoint \notin Endpoints)
    /\ UNCHANGED <<ctlVars, endpoint_directions, descVars, hwVars, retString>>

(***************************************************************************)
(* usb_shutdown.                                                           *)
(***************************************************************************)
usb_shutdown ==
    /\ CanCall
    /\ lastOp' = "usb_shutdown"
    /\ ret' = 0
    /\ retLine' = 422
    /\ regs' = [regs EXCEPT
                  !.USB_ONOFF = @ \cup {"OFF"},
                  !.OPHYPWR = {"FORCESUSPEND", "PLLPOWERDOWN", "XOPOWERDOWN",
                               "ANALOGPOWERDOWN", "UNKNOWNPOWERDOWN"},
                  !.ORSTCON = {"PHYSWRESET", "LINKSWRESET", "PHYLINKSWRESET"}]
    /\ clockgate' = [clockgate EXCEPT !["USB_OTGCLOCKGATE"] = FALSE,
                                      !["USB_PHYCLOCKGATE"] = FALSE]
    /\ power' = FALSE
    /\ LET c == releaseConfigurations(deviceDescriptor, configurations)
           t == releaseStringDescriptors(TheTable)
       IN  /\ deviceDescriptor' = c.dev
           /\ configurations' = c.confs
           /\ numStringDescriptors' = t.num
           /\ stringDescriptors' = t.strs
           /\ firstStringDescriptor' = t.first
           /\ memFault' = (releaseConfigurationsFault(deviceDescriptor, configurations)
                           \/ releaseStringsFault(TheTable))
    /\ released' = (released \/ configurations # << >>)
    /\ UNCHANGED <<ctlVars, epVars, inBuffer, outBuffer, irq, hwEpDir, retString>>

(***************************************************************************)
(* The program: any sequence of calls of the public functions.             *)
(***************************************************************************)
SetupSteps ==
    \/ usb_setup
    \/ hw_reset_taken
    \/ hw_core_ready
    \/ usb_setup_L113
    \/ usb_setup_L116
    \/ usb_setup_L140
    \/ usb_setup_L144
    \/ usb_setup_L150
    \/ usb_setup_L158
    \/ usb_setup_L175
    \/ usb_setup_L184
    \/ usb_setup_L188

Next ==
    \/ SetupSteps
    \/ usb_get_device_descriptor
    \/ \E speed_id \in SpeedIds : usb_get_configuration_descriptor(0, speed_id)
    \/ \E e \in Endpoints, d \in {USBIn, USBOut} : usb_install_ep_handler(e, d, 1, 3)
    \/ usb_shutdown

Spec == Init /\ [][Next]_vars

\* usb_setup runs to its return once called: nothing preempts it, and each
\* spin-wait goes on reading the register
SetupProgress ==
    \/ usb_setup_L113
    \/ usb_setup_L116
    \/ usb_setup_L140
    \/ usb_setup_L144
    \/ usb_setup_L150
    \/ usb_setup_L158
    \/ usb_setup_L175
    \/ usb_setup_L184
    \/ usb_setup_L188

\* the program on hardware that finishes a core soft reset it was asked for
\* and then reports the core ready
SpecLive ==
    /\ Init
    /\ [][Next]_vars
    /\ WF_vars(SetupProgress)
    /\ WF_vars(hw_reset_taken)
    /\ WF_vars(hw_core_ready)

(***************************************************************************)
(* The handler registry on any hardware, with every argument a caller can  *)
(* hand to usb_install_ep_handler.                                         *)
(***************************************************************************)
EndpointArgs == -1 .. USB_NUM_ENDPOINTS

NextEp ==
    \/ SetupSteps
    \/ \E e \in EndpointArgs, d \in DirectionWords, a \in HandlerArgs :
         usb_install_ep_handler(e, d, a[1], a[2])
    \/ usb_shutdown

SpecEp == InitAnyHardware /\ [][NextEp]_vars

(***************************************************************************)
(* The descriptor builder on its own: the static functions applied to the  *)
(* registry in any order, as a caller inside the file can apply them.      *)
(***************************************************************************)
Apply_addConfiguration ==
    /\ CanCall
    /\ Len(configurations) < MaxConfigurations
    /\ lastOp' = "addConfiguration"
    /\ retLine' = 274
    /\ \E w \in BOOLEAN :
         LET c == addConfiguration(deviceDescriptor, configurations, Len(configurations) + 1, 0, 0, 0, 500, w)
         IN  /\ deviceDescriptor' = c.dev
             /\ configurations' = c.confs
             /\ ret' = c.ret
    /\ UNCHANGED <<ctlVars, epVars, numStringDescriptors, stringDescriptors,
                   firstStringDescriptor, released, hwVars, retString, memFault>>

Apply_addInterfaceDescriptor(c) ==
    /\ CanCall
    /\ c \in 1 .. Len(configurations)
    /\ Len(configurations[c].interfaces) < MaxInterfaces
    /\ lastOp' = "addInterfaceDescriptor"
    /\ retLine' = 302
    /\ LET a == addInterfaceDescriptor(configurations[c], Len(configurations[c].interfaces), 0, "OPENIBOOT_INTERFACE_CLASS", "OPENIBOOT_INTERFACE_SUBCLASS", "OPENIBOOT_INTERFACE_PROTOCOL", 0)
       IN  /\ configurations' = [configurations EXCEPT ![c] = a.conf]
           /\ ret' = Len(configurations[c].interfaces)
           /\ memFault' = a.fault
    /\ UNCHANGED <<ctlVars, epVars, deviceDescriptor, numStringDescriptors, stringDescriptors,
                   firstStringDescriptor, released, hwVars, retString>>

Apply_addEndpointDescriptor(c, i, direction) ==
    /\ CanCall
    /\ c \in 1 .. Len(configurations)
    /\ i \in 1 .. Len(configurations[c].interfaces)
    /\ Len(configurations[c].interfaces[i].endpointDescriptors) < MaxEndpoints
    /\ lastOp' = "addEndpointDescriptor"
    /\ LET r == addEndpointDescriptor(configurations[c].interfaces[i], 1, direction, USBBulk, USBNoSynchronization, USBDataEndpoint, 64, 0)
       IN  /\ configurations' = [configurations EXCEPT ![c].interfaces[i] = r.iface]
           /\ ret' = r.ret
           /\ retLine' = IF r.iface = configurations[c].interfaces[i] THEN 307 ELSE 320
    /\ UNCHANGED <<ctlVars, epVars, deviceDescriptor, numStringDescriptors, stringDescriptors,
                   firstStringDescriptor, released, hwVars, retString, memFault>>

Apply_endConfiguration(c) ==
    /\ CanCall
    /\ c \in 1 .. Len(configurations)
    /\ lastOp' = "endConfiguration"
    /\ ret' = 0
    /\ retLine' = 284
    /\ \E g \in GarbageBytes : configurations' = endConfiguration(configurations, c, g)
    /\ UNCHANGED <<ctlVars, epVars, deviceDescriptor, numStringDescriptors, stringDescriptors,
                   firstStringDescriptor, released, hwVars, retString, memFault>>

Apply_releaseConfigurations ==
    /\ CanCall
    /\ lastOp' = "releaseConfigurations"
    /\ ret' = 0
    /\ retLine' = 258
    /\ LET c == releaseConfigurations(deviceDescriptor, configurations)
       IN  /\ deviceDescriptor' = c.dev
           /\ configurations' = c.confs
    /\ memFault' = releaseConfigurationsFault(deviceDescriptor, configurations)
    /\ UNCHANGED <<ctlVars, epVars, numStringDescriptors, stringDescriptors,
                   firstStringDescriptor, released, hwVars, retString>>

NextBuild ==
    \/ Apply_addConfiguration
    \/ \E c \in 1 .. MaxConfigurations : Apply_addInterfaceDescriptor(c)
    \/ \E c \in 1 .. MaxConfigurations, i \in 1 .. MaxInterfaces, d \in DirectionWords :
         Apply_addEndpointDescriptor(c, i, d)
    \/ \E c \in 1 .. MaxConfigurations : Apply_endConfiguration(c)
    \/ Apply_releaseConfigurations

SpecBuild == InitTables /\ [][NextBuild]_vars

(***************************************************************************)
(* The string table on its own: any number of strings interned.            *)
(***************************************************************************)
Apply_addStringDescriptor(descriptorString) ==
    /\ CanCall
    /\ lastOp' = "addStringDescriptor"
    /\ retLine' = 338
    /\ \E g \in GarbageBytes :
         LET r == addStringDescriptor(TheTable, descriptorString, g)
         IN  /\ numStringDescriptors' = r.table.num
             /\ stringDescriptors' = r.table.strs
             /\ firstStringDescriptor' = r.table.first
             /\ ret' = r.ret
             /\ memFault' = r.fault
    /\ UNCHANGED <<ctlVars, epVars, deviceDescriptor, configurations, released, hwVars, retString>>

Apply_releaseStringDescriptors ==
    /\ CanCall
    /\ lastOp' = "releaseStringDescriptors"
    /\ ret' = 0
    /\ retLine' = 364
    /\ LET t == releaseStringDescriptors(TheTable)
       IN  /\ numStringDescriptors' = t.num
           /\ stringDescriptors' = t.strs
           /\ firstStringDescriptor' = t.first
    /\ memFault' = releaseStringsFault(TheTable)
    /\ UNCHANGED <<ctlVars, epVars, deviceDescriptor, configurations, released, hwVars, retString>>

NextStrings ==
    \/ Apply_addStringDescriptor("IF0")
    \/ Apply_releaseStringDescriptors
    \/ \E index \in 0 .. 2 : usb_get_string_descriptor(index)

SpecStrings == InitTables /\ [][NextStrings]_vars

(***************************************************************************)
(* Properties.                                                             *)
(***************************************************************************)
\* the direction the hardware fixes for endpoint e, as a USBDirection
HardwareDirection(e) ==
    CASE hwEpDir[e] = "USB_ENDPOINT_DIRECTIONS_BIDIR" -> USBBiDir
      [] hwEpDir[e] = "USB_ENDPOINT_DIRECTIONS_IN" -> USBIn
      [] hwEpDir[e] = "USB_ENDPOINT_DIRECTIONS_OUT" -> USBOut

\* some handler is registered
SomeHandlerInstalled ==
    \E e \in Endpoints : endpoint_handlers[e].in.handler # 0 \/ endpoint_handlers[e].out.handler # 0

\* C1: a call of usb_setup made when usb_inited is set (a bring-up completed
\* before) returns 0 and changes neither the lifecycle state, nor the
\* direction and handler tables, nor the descriptor and string tables, nor
\* power, clocks, registers, interrupt line or buffers.
C1_SecondSetupIsNoOp ==
    [][(pc = "idle" /\ usb_inited /\ lastOp' = "usb_setup")
         => (ret' = 0 /\ UNCHANGED <<ctlVars, epVars, descVars, hwVars>>)]_vars

\* a second usb_setup has returned, with no usb_shutdown since the first (the
\* rail is still on), over a registered handler and built descriptors
C1_Witness ==
    /\ lastOp = "usb_setup" /\ retLine = 55 /\ ret = 0
    /\ usb_inited /\ power /\ usb_state = "USBPowered"
    /\ SomeHandlerInstalled
    /\ configurations # << >>

\* the step is usb_install_ep_handler(e, d, ...) for some handler and token
InstallStep(e, d) == \E a \in HandlerArgs : usb_install_ep_handler(e, d, a[1], a[2])

\* C2: an install for an endpoint of the physical range whose direction is
\* not bidirectional and differs from the requested one returns -1 and leaves
\* every slot of the handler table as it was; the direction the program holds
\* for an endpoint is the hardware's once usb_setup has run.
C2_MismatchRejected ==
    /\ [][\A e \in Endpoints, d \in DirectionWords :
            (endpoint_directions[e] # USBBiDir /\ endpoint_directions[e] # d /\ InstallStep(e, d))
              => (ret' = -1 /\ endpoint_handlers' = endpoint_handlers)]_vars
    /\ [](usb_inited => \A e \in Endpoints : endpoint_directions[e] = HardwareDirection(e))

\* after bring-up, an install on an OUT-only endpoint was rejected at the
\* direction test while handlers are registered elsewhere
C2_Witness ==
    /\ usb_inited
    /\ lastOp = "usb_install_ep_handler" /\ ret = -1 /\ retLine = 386
    /\ \E e \in Endpoints : endpoint_directions[e] = USBOut /\ endpoint_handlers[e].in.handler = 0
    /\ SomeHandlerInstalled

\* C3 (as claimed): every install with an endpoint number outside
\* 0..USB_NUM_ENDPOINTS-1, negative ones included, returns -1 and stores
\* nothing, neither in the handler table nor anywhere else.
C3_OutOfRangeRejected ==
    [][\A e \in EndpointArgs \ Endpoints, d \in DirectionWords :
          InstallStep(e, d)
            => (ret' = -1 /\ endpoint_handlers' = endpoint_handlers /\ ~memFault')]_vars

\* C4: once usb_setup has run, the slot of every pair (endpoint, IN or OUT)
\* that the endpoint's direction allows holds the handler and token of the
\* last install for that pair that returned 0, and an install changes no
\* slot but the one of its own pair.
C4_LastWriteWins ==
    /\ [](usb_inited =>
            \A e \in Endpoints, d \in {USBIn, USBOut} :
              (endpoint_directions[e] = d \/ endpoint_directions[e] = USBBiDir)
                => Slot(endpoint_handlers, e, d) = installed[e][d])
    /\ [][\A e \in Endpoints, d \in {USBIn, USBOut} :
            (endpoint_handlers' # endpoint_handlers /\ InstallStep(e, d))
              => \A e2 \in Endpoints, d2 \in {USBIn, USBOut} :
                   <<e2, d2>> # <<e, d>>
                     => Slot(endpoint_handlers', e2, d2) = Slot(endpoint_handlers, e2, d2)]_vars

\* after bring-up an install returned 0 and one endpoint holds the second
\* handler in its IN slot and the first in its OUT slot
C4_Witness ==
    /\ usb_inited
    /\ lastOp = "usb_install_ep_handler" /\ ret = 0
    /\ \E e \in Endpoints :
         /\ endpoint_handlers[e].in = [handler |-> 2, token |-> 4]
         /\ endpoint_handlers[e].out = [handler |-> 1, token |-> 3]

\* the four strings usb_get_device_descriptor interns, in order
DeviceStrings ==
    <<"Apple Inc.", "Apple Mobile Device (OpenIBoot Mode)", "", "OpenIBoot Mode Configuration">>

\* C5: while the device descriptor is built there is exactly one
\* configuration, the descriptor's string indices are 1, 2, 3 and the
\* configuration's is 4, the string table starts with the four strings of the
\* build, and a further usb_get_device_descriptor changes no descriptor and no
\* string.
C5_DeviceDescriptorIdempotent ==
    /\ [](configurations # << >> =>
            /\ deviceDescriptor.bNumConfigurations = 1
            /\ Len(configurations) = 1
            /\ deviceDescriptor.iManufacturer = 1
            /\ deviceDescriptor.iProduct = 2
            /\ deviceDescriptor.iSerialNumber = 3
            /\ configurations[1].descriptor.iConfiguration = 4
            /\ numStringDescriptors \in {4, 5}
            /\ Len(stringDescriptors) = numStringDescriptors
            /\ \A i \in 1 .. 4 : stringDescriptors[i].bString = DeviceStrings[i])
    /\ [][(pc = "idle" /\ configurations # << >> /\ lastOp' = "usb_get_device_descriptor")
            => UNCHANGED descVars]_vars

\* usb_get_device_descriptor has returned on a registry whose interfaces
\* were synthesized already: a call after the first, with no tear-down between
C5_Witness ==
    /\ lastOp = "usb_get_device_descriptor"
    /\ configurations # << >>
    /\ Len(configurations[1].interfaces) = 1
    /\ numStringDescriptors = 5

\* the speed identifiers packetsizeFromSpeed knows
RecognizedSpeeds == {USB_HIGHSPEED, USB_FULLSPEED, USB_FULLSPEED_48_MHZ, USB_LOWSPEED}

\* the step is usb_get_configuration_descriptor(0, speed_id)
ConfigurationStep(speed_id) == usb_get_configuration_descriptor(0, speed_id)

\* C6 (as claimed): usb_get_configuration_descriptor(0, speed) with a speed
\* identifier that is not recognized adds no interface, no endpoint and no
\* string.
C6_UnknownSpeedRejected ==
    [][\A sp \in SpeedIds \ RecognizedSpeeds :
          ConfigurationStep(sp)
            => UNCHANGED <<configurations, numStringDescriptors, stringDescriptors,
                           firstStringDescriptor>>]_vars

\* the packet size the specification gives a speed
SpecifiedPacketSize(sp) ==
    IF sp = USB_HIGHSPEED THEN 512 ELSE IF sp = USB_LOWSPEED THEN 32 ELSE 64

\* C7: a usb_get_configuration_descriptor(0, speed) that synthesizes the
\* interface (configuration 0 has none yet and its interfaces pointer reads
\* NULL) with a recognized speed leaves exactly two endpoints, both with the
\* same wMaxPacketSize: 512 for high speed, 64 for full speed and for full
\* speed at 48 MHz, 32 for low speed.
C7_PacketSizeFromSpeed ==
    [][\A sp \in RecognizedSpeeds :
          (ConfigurationStep(sp) /\ configurations[1].interfaces = << >> /\ ~configurations[1].wild)
            => LET eps == configurations'[1].interfaces[1].endpointDescriptors
               IN  /\ Len(eps) = 2
                   /\ eps[1].wMaxPacketSize = eps[2].wMaxPacketSize
                   /\ eps[1].wMaxPacketSize = SpecifiedPacketSize(sp)]_vars

\* usb_get_configuration_descriptor has returned with two synthesized
\* endpoints of the full-speed packet size
C7_Witness ==
    /\ lastOp = "usb_get_configuration_descriptor"
    /\ configurations # << >>
    /\ Len(configurations[1].interfaces) = 1
    /\ LET eps == configurations[1].interfaces[1].endpointDescriptors
       IN  Len(eps) = 2 /\ eps[1].wMaxPacketSize = 64 /\ eps[2].wMaxPacketSize = 64

\* the length of a configuration's own descriptors: interfaces 1..n of conf
RECURSIVE OwnInterfaceLengths(_, _)
OwnInterfaceLengths(conf, n) ==
    IF n = 0 THEN 0
    ELSE OwnInterfaceLengths(conf, n - 1)
         + SizeofUSBInterfaceDescriptor
         + Len(conf.interfaces[n].endpointDescriptors) * SizeofUSBEndpointDescriptor

\* C8 (as claimed): after endConfiguration is applied to any configuration of
\* the device, that configuration's wTotalLength is the configuration
\* descriptor's size plus, for each of its own interfaces, the interface
\* descriptor's size and its endpoint count times the endpoint descriptor's
\* size.
C8_TotalLengthOfOwnInterfaces ==
    [][\A c \in 1 .. MaxConfigurations :
          Apply_endConfiguration(c)
            => configurations'[c].descriptor.wTotalLength =
                 SizeofUSBConfigurationDescriptor
                   + OwnInterfaceLengths(configurations'[c], Len(configurations'[c].interfaces))]_vars

\* C9 (as claimed): addEndpointDescriptor with a direction other than IN or
\* OUT (bidirectional, or outside the enumeration) returns the invalid result
\* and leaves the interface's endpoint count and endpoint list as they were.
C9_OnlyInOrOutAccepted ==
    [][\A c \in 1 .. MaxConfigurations, i \in 1 .. MaxInterfaces,
          d \in DirectionWords \ {USBIn, USBOut} :
          Apply_addEndpointDescriptor(c, i, d)
            => (ret' = (-1) % UInt8 /\ retLine' = 307 /\ configurations' = configurations)]_vars

\* C10 (as claimed): whatever the number of strings interned since the table
\* was empty, the next addStringDescriptor returns that number plus one, never
\* 0, and stores inside the table.
C10_InternReturnsNextIndex ==
    [][Apply_addStringDescriptor("IF0")
         => (ret' = Len(stringDescriptors) + 1 /\ ret' >= 1 /\ ~memFault')]_vars

\* C11 (as claimed): with at least one string interned,
\* usb_get_string_descriptor(0) returns a descriptor whose bLength is
\* 2 + 2 * count, whose type is the string descriptor type, and whose payload
\* is count language identifiers, each English (US), count being the number
\* of interned strings.
C11_LanguageListDescriptor ==
    [][(numStringDescriptors >= 1 /\ usb_get_string_descriptor(0))
         => /\ retString'.bLength = 2 + 2 * numStringDescriptors
            /\ retString'.bDescriptorType = "USBStringDescriptorType"
            /\ Len(retString'.bString) = numStringDescriptors
            /\ \A i \in 1 .. numStringDescriptors :
                  retString'.bString[i] = "USB_LANGID_ENGLISH_US"]_vars

\* the descriptors of a registry: the device descriptor and, per
\* configuration, its descriptor and its interfaces
Tree(dev, confs) ==
    [dev |-> dev,
     confs |-> [i \in 1 .. Len(confs) |->
                  [descriptor |-> confs[i].descriptor, interfaces |-> confs[i].interfaces]]]

\* the tree of the very first build: zeroed static storage, empty string table
FirstTree ==
    LET b == BuildDevice(ZeroDevice, StringTable(0, << >>, NullFirst), 0, FALSE)
    IN  Tree(b.dev, b.confs)

\* C12: every usb_get_device_descriptor that builds, the ones after a
\* usb_shutdown included, leaves the tree of the very first build: one
\* configuration without interfaces, the string indices 1, 2, 3 in the device
\* descriptor and 4 in the configuration, and a string table of exactly the
\* four strings of the build.
C12_RebuildAfterRelease ==
    [][(configurations = << >> /\ usb_get_device_descriptor)
         => /\ Tree(deviceDescriptor', configurations') = FirstTree
            /\ Len(configurations') = 1
            /\ deviceDescriptor'.bNumConfigurations = 1
            /\ deviceDescriptor'.iManufacturer = 1
            /\ deviceDescriptor'.iProduct = 2
            /\ deviceDescriptor'.iSerialNumber = 3
            /\ configurations'[1].descriptor.iConfiguration = 4
            /\ numStringDescriptors' = 4
            /\ [i \in 1 .. 4 |-> stringDescriptors'[i].bString] = DeviceStrings]_vars

\* usb_get_device_descriptor has rebuilt the tree after a usb_shutdown that
\* released a built one
C12_Witness ==
    /\ released
    /\ lastOp = "usb_get_device_descriptor"
    /\ configurations # << >>
    /\ deviceDescriptor.iManufacturer = 1
    /\ numStringDescriptors = 4

\* the rail and the two clock gates usb_shutdown switches off are off
PoweredDown ==
    ~power /\ ~clockgate["USB_OTGCLOCKGATE"] /\ ~clockgate["USB_PHYCLOCKGATE"]

\* C13: usb_shutdown leaves usb_inited as it is and the rail and the OTG and
\* PHY clock gates off; a usb_setup called after a completed bring-up and a
\* tear-down returns 0 from the guard and writes no register, rail, clock
\* gate, interrupt line or buffer; so once torn down after a bring-up, the
\* rail and the two gates stay off whatever is called.
C13_NoBringUpAfterTearDown ==
    /\ [][usb_shutdown => (usb_inited' = usb_inited /\ PoweredDown')]_vars
    /\ [][(usb_inited /\ ~power /\ usb_setup)
            => (ret' = 0 /\ retLine' = 55 /\ UNCHANGED <<ctlVars, hwVars>>)]_vars
    /\ [][(usb_inited /\ ~power) => (usb_inited' /\ PoweredDown')]_vars

\* bring-up, tear-down, bring-up: the second usb_setup has returned from the
\* guard with the rail and the gates off
C13_Witness ==
    /\ lastOp = "usb_setup" /\ retLine = 55 /\ ret = 0
    /\ usb_inited
    /\ PoweredDown

\* interface list ifs is one interface holding two bulk endpoints, one IN and
\* one OUT
OneBulkPair(ifs) ==
    /\ Len(ifs) = 1
    /\ ifs[1].descriptor.bNumEndpoints = 2
    /\ Len(ifs[1].endpointDescriptors) = 2
    /\ \A k \in 1 .. 2 : ifs[1].endpointDescriptors[k].bmAttributes = USBBulk
    /\ {ifs[1].endpointDescriptors[k].bEndpointAddress \div 128 : k \in 1 .. 2} = {USBIn, USBOut}

\* C14 (as claimed): after usb_get_device_descriptor, every
\* usb_get_configuration_descriptor(0, speed) with a recognized speed leaves
\* configuration 0 with exactly one interface of two bulk endpoints, one IN
\* and one OUT, and a call made when the interface exists adds no interface,
\* endpoint or string and changes neither wTotalLength nor a packet size.
C14_OneInterfaceTwoEndpoints ==
    [][\A sp \in RecognizedSpeeds :
          ConfigurationStep(sp)
            => /\ configurations'[1].descriptor.bNumInterfaces = 1
               /\ OneBulkPair(configurations'[1].interfaces)
               /\ configurations[1].interfaces # << >>
                     => UNCHANGED <<configurations, numStringDescriptors, stringDescriptors,
                                    firstStringDescriptor>>]_vars

\* C15 (as claimed): releasing the descriptor registry in usb_shutdown frees
\* only pointers that were allocated or assigned, and leaves
\* bNumConfigurations 0 and no configuration; with nothing allocated it
\* changes no table.
C15_ReleaseIsMemorySafe ==
    [][usb_shutdown
         => /\ ~memFault'
            /\ deviceDescriptor'.bNumConfigurations = 0
            /\ configurations' = << >>
            /\ (configurations = << >> /\ stringDescriptors = << >>)
                  => UNCHANGED <<deviceDescriptor, configurations, numStringDescriptors,
                                 stringDescriptors, firstStringDescriptor>>]_vars

\* C16 (as claimed): releasing the string table in usb_shutdown leaves the
\* count zero, no interned entry, and no language list allocated for
\* usb_get_string_descriptor(0) to return.
C16_StringReleaseFreesLanguageList ==
    [][usb_shutdown
         => /\ numStringDescriptors' = 0
            /\ stringDescriptors' = << >>
            /\ ~firstStringDescriptor'.alloc]_vars

\* the first usb_setup has returned 0 from its last line
BringUpDone ==
    /\ pc = "idle"
    /\ lastOp = "usb_setup" /\ ret = 0 /\ retLine = 192
    /\ usb_state = "USBPowered"
    /\ usb_inited

\* C17: on hardware that eventually clears the core-soft-reset bit and then
\* eventually signals the core ready, a usb_setup that has started the core
\* soft reset eventually leaves both spin-waits and returns 0 with the state
\* Powered and usb_inited set.
C17_BringUpCompletes == (pc = "L113") ~> BringUpDone

\* the bring-up has returned after both waits: the reset bit is clear and the
\* ready bit set
C17_Witness ==
    /\ BringUpDone
    /\ regs.GRSTCTL = {"AHBIDLE"}
    /\ power

\* GINTMSK, DIEPMSK and DOEPMSK in r are all set to none
AllMasked(r) == r.GINTMSK = {} /\ r.DIEPMSK = {} /\ r.DOEPMSK = {}

\* the descriptor and string tables are empty
TablesEmpty == configurations = << >> /\ stringDescriptors = << >> /\ numStringDescriptors = 0

\* C18: the interrupt line changes only in the step of lines 144-145, taken
\* with GINTMSK, DIEPMSK and DOEPMSK all none; a top-level mask becomes
\* unmasked only in the step of lines 175-182, taken with both tables empty,
\* both buffers allocated and the two control endpoints active; and the
\* state becomes Powered only with the interrupts unmasked and the
\* programming-done bit written.
C18_BringUpOrder ==
    /\ [][irq' # irq => (usb_setup_L144 /\ AllMasked(regs))]_vars
    /\ [][(~AllMasked(regs') /\ <<regs.GINTMSK, regs.DIEPMSK, regs.DOEPMSK>>
                                   # <<regs'.GINTMSK, regs'.DIEPMSK, regs'.DOEPMSK>>)
            => /\ usb_setup_L175
               /\ irq.enabled
               /\ TablesEmpty
               /\ inBuffer /\ outBuffer
               /\ "ACTIVE" \in regs.DIEPCTL0 /\ "ACTIVE" \in regs.DOEPCTL0]_vars
    /\ [][(usb_state' = "USBPowered" /\ usb_state # "USBPowered")
            => /\ "RESET" \in regs.GINTMSK /\ regs.DIEPMSK # {} /\ regs.DOEPMSK # {}
               /\ "PROGRAMDONE" \in regs.DCTL]_vars

\* usb_setup has run to its return on a program that had built the device
\* descriptor before the bring-up: the tables were emptied on the way
C18_Witness ==
    /\ BringUpDone
    /\ irq.enabled
    /\ ~AllMasked(regs)
    /\ "PROGRAMDONE" \in regs.DCTL
    /\ deviceDescriptor.bLength = SizeofUSBDeviceDescriptor
    /\ TablesEmpty

\* C19: usb_shutdown changes neither the direction table nor any slot of the
\* handler table; and once a bring-up has completed, tear-downs and later
\* usb_setup calls included, the direction table never changes and the
\* handler table changes only by usb_install_ep_handler.
C19_TearDownKeepsRegistry ==
    /\ [][usb_shutdown => UNCHANGED <<endpoint_directions, endpoint_handlers>>]_vars
    /\ [][usb_inited => endpoint_directions' = endpoint_directions]_vars
    /\ [][(usb_inited /\ endpoint_handlers' # endpoint_handlers)
            => lastOp' = "usb_install_ep_handler"]_vars

\* usb_shutdown has returned after a bring-up and the handlers registered
\* before it are in their slots
C19_Witness ==
    /\ lastOp = "usb_shutdown"
    /\ usb_inited
    /\ PoweredDown
    /\ endpoint_handlers[0].in = [handler |-> 1, token |-> 3]
    /\ endpoint_handlers[0].out = [handler |-> 1, token |-> 3]

\* C20 (as claimed): whenever the recorded state is Powered, the USB power
\* rail and the OTG and PHY clock gates are on.
C20_PoweredMeansPowerOn ==
    usb_state = "USBPowered"
      => (power /\ clockgate["USB_OTGCLOCKGATE"] /\ clockgate["USB_PHYCLOCKGATE"])

====
